---- MODULE Spec2Model ----
(***************************************************************************)
(* Snake-and-Ladder (src/src/App.tsx): the React component's state and its *)
(* handlers resetGame and rollDice, the latter in two steps: up to its     *)
(* await, and the continuation that runs after the 600 ms timer and calls  *)
(* movePlayer.  Each step's state updates are applied together, as React   *)
(* batches them.                                                           *)
(*                                                                         *)
(* rollDice is an async function: the code after its await runs in the     *)
(* closure of the render in which the click happened.  The values of       *)
(* players and currentPlayerIndex that movePlayer reads are therefore the  *)
(* ones captured when the roll started; only the functional updates        *)
(* (setPlayers(prev => ...), setGameLog(prev => ...)) see the state at the  *)
(* time the timer fires.  The captured values are kept in `pending`.       *)
(*                                                                         *)
(* The log records every roll, so a state carries the whole game since the *)
(* last reset.  Spec explores every game of up to MaxRolls rolls from the  *)
(* mount, any die value at every draw and resetGame at any time, and the   *)
(* same after the draws of Opening, the start of a game that takes both    *)
(* players near the goal, made with Math.random stubbed.                   *)
(***************************************************************************)
EXTENDS Integers, Sequences, FiniteSets, TLC

VARIABLES
    players,             \* useState<Player[]>: sequence of [id, position]
    currentPlayerIndex,  \* useState(0): 0-based index into players
    diceValue,           \* useState<number | null>: NoDice is null
    isRolling,           \* useState(false)
    winner,              \* useState<Player | null>: <<>> is null, <<p>> is p
    gameLog,             \* useState<GameLogEntry[]>, newest first
    pending,             \* rollDice calls suspended at the await, oldest
                         \* first: each holds the players and
                         \* currentPlayerIndex its closure captured
    lastCall,            \* the handler that ran last
    random,              \* the die values a stubbed Math.random yields at
                         \* the next draws; <<>> once Math.random is free
    rolls                \* the rolls accepted with Math.random free

vars == <<players, currentPlayerIndex, diceValue, isRolling, winner,
          gameLog, pending, lastCall, random, rolls>>

\* what the component renders from
state == <<players, currentPlayerIndex, diceValue, isRolling, winner, gameLog>>

-----------------------------------------------------------------------------
(* Constants *)

GRID_SIZE == 10
TOTAL_SQUARES == 100
DICE_SIDES == 6
LOG_KEEP == 49
NoDice == 0

Min(a, b) == IF a < b THEN a ELSE b

SnakeHeads == {99, 95, 92, 89, 64, 49, 46, 16}

\* SNAKES with the snake at 46 ending on 52 (25 with its digits swapped)
SNAKESDigitsSwapped ==
    [s \in SnakeHeads |->
       CASE s = 99 -> 80 [] s = 95 -> 75 [] s = 92 -> 88 [] s = 89 -> 68
         [] s = 64 -> 60 [] s = 49 -> 11 [] s = 46 -> 52 [] s = 16 -> 6]

SNAKES == [s \in SnakeHeads |->
             CASE s = 99 -> 80 [] s = 95 -> 75 [] s = 92 -> 88 [] s = 89 -> 68
               [] s = 64 -> 60 [] s = 49 -> 11 [] s = 46 -> 25 [] s = 16 -> 6]

LadderFeet == {2, 7, 8, 15, 21, 28, 36, 51, 71, 78, 87}

\* LADDERS with the ladder at 7 ending on 15, the foot of another ladder
LADDERSChained ==
    [s \in LadderFeet |->
       CASE s = 2 -> 38 [] s = 7 -> 15 [] s = 8 -> 31 [] s = 15 -> 26
         [] s = 21 -> 42 [] s = 28 -> 84 [] s = 36 -> 44 [] s = 51 -> 67
         [] s = 71 -> 91 [] s = 78 -> 98 [] s = 87 -> 94]

LADDERS == [s \in LadderFeet |->
              CASE s = 2 -> 38 [] s = 7 -> 14 [] s = 8 -> 31 [] s = 15 -> 26
                [] s = 21 -> 42 [] s = 28 -> 84 [] s = 36 -> 44 [] s = 51 -> 67
                [] s = 71 -> 91 [] s = 78 -> 98 [] s = 87 -> 94]

\* `SNAKES[n]` / `LADDERS[n]` used as a condition: undefined (no such key)
\* and 0 are falsy
IsSnake(n) == n \in DOMAIN SNAKES /\ SNAKES[n] # 0
IsLadder(n) == n \in DOMAIN LADDERS /\ LADDERS[n] # 0

-----------------------------------------------------------------------------
(* The board as rendered *)

Cell(x, y) == [x |-> x, y |-> y]

\* getCoordinates with every row laid out left to right
getCoordinatesNoFlip(square) ==
    LET zeroIndexed == square - 1
        row == zeroIndexed \div GRID_SIZE
        col == zeroIndexed % GRID_SIZE
    IN  Cell(col, (GRID_SIZE - 1) - row)

\* getCoordinates, lines 172-182
getCoordinates(square) ==
    LET zeroIndexed == square - 1
        row == zeroIndexed \div GRID_SIZE
        col == zeroIndexed % GRID_SIZE
    IN  Cell(IF row % 2 = 0 THEN col ELSE (GRID_SIZE - 1) - col,
             (GRID_SIZE - 1) - row)

\* the grid's numbering with every row numbered left to right
CellNumberNoFlip(i) ==
    LET vRow == i \div 10
        vCol == i % 10
        row  == 9 - vRow
    IN  row * 10 + vCol + 1

\* lines 215-220: the number drawn in the grid's i-th cell
CellNumber(i) ==
    LET vRow == i \div 10
        vCol == i % 10
        row  == 9 - vRow
        col  == IF row % 2 = 0 THEN vCol ELSE 9 - vCol
    IN  row * 10 + col + 1

\* lines 320-321: where the players' tokens are drawn
Tokens == [i \in DOMAIN players |-> getCoordinates(players[i].position)]

Squares == 1..TOTAL_SQUARES
GridCells == {Cell(x, y) : x \in 0..(GRID_SIZE - 1), y \in 0..(GRID_SIZE - 1)}
CellIndexes == 0..(TOTAL_SQUARES - 1)

-----------------------------------------------------------------------------
(* The game log *)

\* GameLogEntry: its type and what its message says (the message's kind, the
\* player it names and the numbers it quotes; 0 where it quotes none)
Entry(type, text, player, a, b) ==
    [type |-> type, text |-> text, player |-> player, a |-> a, b |-> b]

\* addLog keeping the last 49 entries of prev, as prev.slice(-49) would
addLogKeepsOldest(prev, entry) ==
    <<entry>> \o SubSeq(prev, Len(prev) - Min(Len(prev), LOG_KEEP) + 1, Len(prev))

\* setGameLog(prev => [entry, ...prev.slice(0, 49)])
addLog(prev, entry) ==
    <<entry>> \o SubSeq(prev, 1, Min(Len(prev), LOG_KEEP))

\* the addLog calls of one handler, applied in call order
RECURSIVE addLogs(_, _)
addLogs(prev, entries) ==
    IF entries = <<>> THEN prev
    ELSE addLogs(addLog(prev, Head(entries)), Tail(entries))

-----------------------------------------------------------------------------
(* movePlayer *)

\* Landing without the overshoot test
LandingUnchecked(position, steps) == position + steps

\* Landing with the overshoot clamped to the last square instead of refused
LandingClamped(position, steps) ==
    IF position + steps > TOTAL_SQUARES THEN TOTAL_SQUARES ELSE position + steps

\* lines 127-134: the square the roll leads to; past the last square the
\* player stays put
Landing(position, steps) ==
    IF position + steps > TOTAL_SQUARES THEN position ELSE position + steps

\* Transition with the snake lookup left out
TransitionLaddersOnly(newPosition) ==
    IF IsLadder(newPosition) THEN LADDERS[newPosition] ELSE newPosition

\* lines 137-146: snakes first, then ladders
Transition(newPosition) ==
    IF IsSnake(newPosition) THEN SNAKES[newPosition]
    ELSE IF IsLadder(newPosition) THEN LADDERS[newPosition]
    ELSE newPosition

TransitionType(newPosition) ==
    IF IsSnake(newPosition) THEN "snake"
    ELSE IF IsLadder(newPosition) THEN "ladder"
    ELSE "none"

\* lines 149-151: prev.map((p, i) => i === index ? {...p, position} : p)
SetPosition(prev, index, position) ==
    [i \in DOMAIN prev |->
        IF i - 1 = index THEN [prev[i] EXCEPT !.position = position] ELSE prev[i]]

\* line 163
NextIndex(index, count) == (index + 1) % count

\* MoveEntries with the overshoot test off by one (>= for >): landing exactly
\* on the last square is announced as an overshoot too
MoveEntriesOffByOne(currentPlayer, steps) ==
    LET newPosition   == Landing(currentPlayer.position, steps)
        finalPosition == Transition(newPosition)
        type          == TransitionType(newPosition)
    IN  <<Entry("move", "rolled", currentPlayer.id, steps, 0)>>
        \o (IF currentPlayer.position + steps >= TOTAL_SQUARES
            THEN <<Entry("info", "needs", currentPlayer.id,
                         TOTAL_SQUARES - currentPlayer.position, 0)>>
            ELSE <<>>)
        \o (IF type = "none" THEN <<>>
            ELSE <<Entry(type, type, currentPlayer.id, newPosition, finalPosition)>>)
        \o (IF finalPosition = TOTAL_SQUARES
            THEN <<Entry("win", "wins", currentPlayer.id, 0, 0)>>
            ELSE <<>>)

\* the addLog calls of movePlayer (lines 129, 132, 154, 156, 161)
MoveEntries(currentPlayer, steps) ==
    LET newPosition   == Landing(currentPlayer.position, steps)
        finalPosition == Transition(newPosition)
        type          == TransitionType(newPosition)
    IN  <<Entry("move", "rolled", currentPlayer.id, steps, 0)>>
        \o (IF currentPlayer.position + steps > TOTAL_SQUARES
            THEN <<Entry("info", "needs", currentPlayer.id,
                         TOTAL_SQUARES - currentPlayer.position, 0)>>
            ELSE <<>>)
        \o (IF type = "none" THEN <<>>
            ELSE <<Entry(type, type, currentPlayer.id, newPosition, finalPosition)>>)
        \o (IF finalPosition = TOTAL_SQUARES
            THEN <<Entry("win", "wins", currentPlayer.id, 0, 0)>>
            ELSE <<>>)

\* movePlayer(steps) run in the closure `c`: players and currentPlayerIndex
\* are c's, the functional updates act on the current state
movePlayer(c, steps) ==
    LET currentPlayer == c.players[c.currentPlayerIndex + 1]
        newPosition   == Landing(currentPlayer.position, steps)
        finalPosition == Transition(newPosition)
    IN  /\ players' = SetPosition(players, c.currentPlayerIndex, finalPosition)
        /\ gameLog' = addLogs(gameLog, MoveEntries(currentPlayer, steps))
        /\ IF finalPosition = TOTAL_SQUARES
           THEN /\ winner' = <<currentPlayer>>
                /\ UNCHANGED currentPlayerIndex
           ELSE /\ currentPlayerIndex' =
                      NextIndex(c.currentPlayerIndex, Len(c.players))
                /\ UNCHANGED winner

-----------------------------------------------------------------------------
(* Handlers *)

\* RollGuard without the winner test
RollGuardRollingOnly(rolling, w) == rolling

\* RollGuard without the isRolling test
RollGuardWinnerOnly(rolling, w) == w # <<>>

\* line 110
RollGuard(rolling, w) == rolling \/ w # <<>>

\* what the closure of a render captures for movePlayer
Closure == [players |-> players, currentPlayerIndex |-> currentPlayerIndex]

\* resetGame without setCurrentPlayerIndex(0)
ResetGameKeepsTurn ==
    /\ players' = [i \in DOMAIN players |-> [players[i] EXCEPT !.position = 1]]
    /\ diceValue' = NoDice
    /\ winner' = <<>>
    /\ gameLog' = addLog(<<>>, Entry("info", "reset", 0, 0, 0))
    /\ lastCall' = "resetGame"
    /\ UNCHANGED <<currentPlayerIndex, isRolling, pending, random, rolls>>

\* resetGame with setIsRolling(false) added
ResetGameClearsRolling ==
    /\ players' = [i \in DOMAIN players |-> [players[i] EXCEPT !.position = 1]]
    /\ currentPlayerIndex' = 0
    /\ diceValue' = NoDice
    /\ isRolling' = FALSE
    /\ winner' = <<>>
    /\ gameLog' = addLog(<<>>, Entry("info", "reset", 0, 0, 0))
    /\ lastCall' = "resetGame"
    /\ UNCHANGED <<pending, random, rolls>>

\* resetGame without setWinner(null)
ResetGameKeepsWinner ==
    /\ players' = [i \in DOMAIN players |-> [players[i] EXCEPT !.position = 1]]
    /\ currentPlayerIndex' = 0
    /\ diceValue' = NoDice
    /\ gameLog' = addLog(<<>>, Entry("info", "reset", 0, 0, 0))
    /\ lastCall' = "resetGame"
    /\ UNCHANGED <<winner, isRolling, pending, random, rolls>>

\* resetGame, lines 100-107
ResetGame ==
    /\ players' = [i \in DOMAIN players |-> [players[i] EXCEPT !.position = 1]]
    /\ currentPlayerIndex' = 0
    /\ diceValue' = NoDice
    /\ winner' = <<>>
    /\ gameLog' = addLog(<<>>, Entry("info", "reset", 0, 0, 0))
    /\ lastCall' = "resetGame"
    /\ UNCHANGED <<isRolling, pending, random, rolls>>

\* the values of Math.floor(Math.random() * 6) + 1, line 118
Die == 1..DICE_SIDES

\* the rolls explored with Math.random free
MaxRolls == 3

\* what the next draw of line 118 can yield
Draws == IF random = <<>> THEN Die ELSE {Head(random)}

\* rollDice up to its await, lines 109-116
RollDice ==
    /\ RollGuard(isRolling, winner) \/ random # <<>> \/ rolls < MaxRolls
    /\ lastCall' = "rollDice"
    /\ IF RollGuard(isRolling, winner)
       THEN UNCHANGED <<isRolling, diceValue, pending, rolls>>
       ELSE /\ isRolling' = TRUE
            /\ diceValue' = NoDice
            /\ pending' = Append(pending, Closure)
            /\ rolls' = IF random = <<>> THEN rolls + 1 ELSE rolls
    /\ UNCHANGED <<players, currentPlayerIndex, winner, gameLog, random>>

\* the continuation of rollDice without setIsRolling(false)
TimerFiresKeepsRolling ==
    /\ pending # <<>>
    /\ \E roll \in Draws :
          /\ diceValue' = roll
          /\ UNCHANGED isRolling
          /\ movePlayer(Head(pending), roll)
    /\ pending' = Tail(pending)
    /\ random' = IF random = <<>> THEN random ELSE Tail(random)
    /\ lastCall' = "movePlayer"
    /\ UNCHANGED rolls

\* rollDice after its await, lines 118-122, and the movePlayer it calls
TimerFires ==
    /\ pending # <<>>
    /\ \E roll \in Draws :
          /\ diceValue' = roll
          /\ isRolling' = FALSE
          /\ movePlayer(Head(pending), roll)
    /\ pending' = Tail(pending)
    /\ random' = IF random = <<>> THEN random ELSE Tail(random)
    /\ lastCall' = "movePlayer"
    /\ UNCHANGED rolls

-----------------------------------------------------------------------------
(* Specifications *)

\* the component once mounted: the initial state values (lines 78-86) and the
\* mount effect's log entry (lines 96-98)
Mounted ==
    /\ players = <<[id |-> 1, position |-> 1], [id |-> 2, position |-> 1]>>
    /\ currentPlayerIndex = 0
    /\ diceValue = NoDice
    /\ isRolling = FALSE
    /\ winner = <<>>
    /\ gameLog = addLog(<<>>, Entry("info", "started", 0, 0, 0))
    /\ pending = <<>>
    /\ lastCall = "mount"

Next ==
    \/ ResetGame
    \/ RollDice
    \/ TimerFires

\* the first 31 draws of a game: both players take snakes and ladders, the
\* log grows to 46 entries, and player 1 has just overshot from 97 with
\* player 2 on 94
Opening ==
    <<3, 1, 6, 1, 6, 1, 2, 1, 5, 1, 1, 1, 4, 1, 4, 1,
      6, 1, 6, 3, 1, 1, 6, 2, 6, 1, 4, 6, 6, 6, 5>>

\* the mounted component, with Math.random free from the first draw or
\* stubbed for the draws of Opening and free after them
Init == Mounted /\ random \in {<<>>, Opening} /\ rolls = 0

Spec == Init /\ [][Next]_vars

\* the same, with the timer of line 116 firing once it is set
SpecFair == Init /\ [][Next]_vars /\ WF_vars(TimerFires)

-----------------------------------------------------------------------------
(* Properties *)

\* the step in which a suspended rollDice resumes and movePlayer runs: the
\* only step that clears isRolling
Resolution == isRolling /\ ~isRolling'

\* the active player of the current state
Active == players[currentPlayerIndex + 1]

\* C1: when a roll resolves and the active player's position plus the roll
\* exceeds 100, that player's position is unchanged, no winner is declared
\* and the turn passes to the other player.
OvershootForfeitsMove ==
    [][(Resolution /\ Active.position + diceValue' > TOTAL_SQUARES)
         => /\ players'[currentPlayerIndex + 1].position = Active.position
            /\ winner' = <<>>
            /\ currentPlayerIndex' = 1 - currentPlayerIndex]_vars

\* C1 has happened: player 1 rests on 97 after a 5 (92 is a snake head, so
\* no move of 5 ends on 97), in a game not reset since player 2 moved, and
\* the turn is player 2's.
OvershootSeen ==
    /\ lastCall = "movePlayer"
    /\ diceValue = 5
    /\ players[1].position = 97
    /\ players[2].position > 1
    /\ currentPlayerIndex = 1
    /\ winner = <<>>

\* C2: a roll that resolves in the state it started in (no reset changed the
\* players or the turn meanwhile), with tentative = position + roll <= 100,
\* leaves the player on SNAKES[tentative], below tentative, at a snake head,
\* on LADDERS[tentative], above tentative, at a ladder foot, and on tentative
\* otherwise; from 1 a roll of 6 ends on 14 and the turn passes.
TransitionResolved ==
    [][(Resolution /\ Head(pending) = Closure)
         => LET tentative == Active.position + diceValue'
                final     == players'[currentPlayerIndex + 1].position
            IN  /\ tentative <= TOTAL_SQUARES =>
                     /\ tentative \in SnakeHeads =>
                          final = SNAKES[tentative] /\ final < tentative
                     /\ tentative \in LadderFeet =>
                          final = LADDERS[tentative] /\ final > tentative
                     /\ tentative \notin SnakeHeads \cup LadderFeet =>
                          final = tentative
                /\ (Active.position = 1 /\ diceValue' = 6) =>
                     final = 14 /\ currentPlayerIndex' = 1 - currentPlayerIndex]_vars

\* C2 has happened: player 1 rests on 6 after a 6, which only the snake
\* from 16 allows, in a game not reset since player 2 moved; the turn is
\* player 2's.
SnakeTaken ==
    /\ lastCall = "movePlayer"
    /\ diceValue = 6
    /\ players[1].position = 6
    /\ players[2].position > 1
    /\ currentPlayerIndex = 1

\* C3: when a resolution puts a player on 100, the winner is the player who
\* is active in the state at that resolution and the active index is kept;
\* and while a winner is set a rollDice call changes nothing.
WinnerIsActivePlayer ==
    [][/\ (Resolution /\ \E i \in DOMAIN players : players'[i].position = TOTAL_SQUARES)
          => /\ winner' # <<>>
             /\ winner'[1].id = Active.id
             /\ currentPlayerIndex' = currentPlayerIndex
       /\ (winner # <<>> /\ lastCall' = "rollDice")
          => UNCHANGED <<state, pending>>]_vars

\* C4: in the state right after resetGame every player is on 1, there is no
\* winner and no dice value, the active index is 0 and the log holds one
\* entry, of type info.
ResetPostcondition ==
    lastCall = "resetGame" =>
        /\ \A i \in DOMAIN players : players[i].position = 1
        /\ winner = <<>>
        /\ diceValue = NoDice
        /\ currentPlayerIndex = 0
        /\ Len(gameLog) = 1
        /\ gameLog[1].type = "info"

\* C4 has happened: resetGame ran while a roll that had started on player
\* 2's turn, with the players away from the start, was still suspended.
ResetMidRoll ==
    /\ lastCall = "resetGame"
    /\ isRolling
    /\ pending # <<>>
    /\ Head(pending).currentPlayerIndex = 1
    /\ Head(pending).players[1].position > 1

\* C5: a resolution changes no player but the one at the active index of
\* the state it happens in.
OnlyActivePlayerMoves ==
    [][Resolution =>
         \A i \in DOMAIN players :
            i # currentPlayerIndex + 1 => players'[i] = players[i]]_vars

\* C6: a resolution moves the active player from the position that player
\* has in the state at the resolution: the new position is what position +
\* roll leads to from there.
ResolutionReadsCurrentState ==
    [][Resolution =>
         players'[currentPlayerIndex + 1].position =
            Transition(Landing(Active.position, diceValue'))]_vars

\* C7: while a winner is set, a step other than resetGame changes neither
\* the winner nor any player's position; at most one player is the winner.
WinnerPermanent ==
    [][(winner # <<>> /\ lastCall' # "resetGame")
         => /\ winner' = winner
            /\ players' = players
            /\ Len(winner') = 1]_vars

\* C7 has happened: player 2 has won and rollDice was called afterwards.
RollAfterWin ==
    /\ winner # <<>>
    /\ winner[1].id = 2
    /\ players[2].position = TOTAL_SQUARES
    /\ lastCall = "rollDice"
    /\ pending = <<>>

\* C8: a rollDice call made while isRolling is set or while a winner is set
\* changes no state the component renders and suspends no new roll.
GuardedRollIgnored ==
    [][(lastCall' = "rollDice" /\ (isRolling \/ winner # <<>>))
         => UNCHANGED <<state, pending>>]_vars

\* C8 has happened: a rollDice call was refused while a roll was suspended.
\* The suspended roll started on player 2's turn and the turn is player 1's
\* (resetGame ran during the delay), so the call made last is not the one
\* that suspended it: an accepted call suspends the closure of the state it
\* is made in.  The refused call left the reset game and the one suspended
\* roll as they were.
RollWhileRolling ==
    /\ lastCall = "rollDice"
    /\ isRolling
    /\ Len(pending) = 1
    /\ Head(pending).currentPlayerIndex = 1
    /\ currentPlayerIndex = 0
    /\ diceValue = NoDice
    /\ winner = <<>>
    /\ gameLog = <<Entry("info", "reset", 0, 0, 0)>>

\* C9: after a resolution that sets no winner the active index is the index
\* of the state before it plus 1, modulo the player count; the active index
\* is always a valid index.
TurnAdvancesFromCurrent ==
    /\ [](currentPlayerIndex \in 0..(Len(players) - 1))
    /\ [][(Resolution /\ winner' = <<>>)
            => currentPlayerIndex' = (currentPlayerIndex + 1) % Len(players)]_vars

\* C10: the log never holds more than 50 entries; a resolution puts its one
\* or two new entries first and keeps the newest entries of the old log
\* after them in their order, so what is dropped at capacity is the oldest.
LogBoundedOldestEvicted ==
    /\ [](Len(gameLog) <= LOG_KEEP + 1)
    /\ [][Resolution =>
            \E k \in 1..2 :
               /\ Len(gameLog') = Min(LOG_KEEP + 1, Len(gameLog) + k)
               /\ SubSeq(gameLog', k + 1, Len(gameLog'))
                     = SubSeq(gameLog, 1, Len(gameLog') - k)]_vars

\* C10 has happened: the log is full and the entry seeded by the mount effect
\* or by resetGame, its oldest, has been dropped.
LogEvicted ==
    /\ Len(gameLog) = LOG_KEEP + 1
    /\ gameLog[Len(gameLog)].text \notin {"started", "reset"}
    /\ lastCall = "movePlayer"

\* C11: a resolution appends one entry of type move and at most one more,
\* of type snake, ladder or win or the overshoot's info entry: never three,
\* so never a transition entry with a win or an overshoot entry.
EntriesPerResolution ==
    [][Resolution =>
         \E k \in 1..2 :
            /\ Len(gameLog') = Min(LOG_KEEP + 1, Len(gameLog) + k)
            /\ SubSeq(gameLog', k + 1, Len(gameLog'))
                  = SubSeq(gameLog, 1, Len(gameLog') - k)
            /\ gameLog'[k].type = "move"
            /\ k = 2 =>
                 \/ gameLog'[1].type \in {"snake", "ladder", "win"}
                 \/ gameLog'[1].type = "info" /\ gameLog'[1].text = "needs"]_vars

\* C11 has happened: the newest two entries are a roll and the overshoot it
\* led to, and before them a roll with the ladder it led to.
OvershootLogged ==
    /\ lastCall = "movePlayer"
    /\ Len(gameLog) >= 4
    /\ gameLog[1].text = "needs"
    /\ gameLog[2].type = "move"
    /\ gameLog[3].type = "ladder"
    /\ gameLog[4].type = "move"

\* C12: every player's position is an integer from 1 to 100.
PositionInRange ==
    \A i \in DOMAIN players : players[i].position \in 1..TOTAL_SQUARES

\* C12 has happened: player 2 rests on 97 after a 5, that is after a roll
\* that led past 100 (92 is a snake head), and the turn is player 1's.
StayedBelowGoal ==
    /\ lastCall = "movePlayer"
    /\ diceValue = 5
    /\ players[2].position = 97
    /\ players[1].position > 1
    /\ currentPlayerIndex = 0

\* C13: the keys of SNAKES and LADDERS lie in 2..99 and no square is a key
\* of both; a snake ends below its head and a ladder above its foot, on a
\* square from 1 to 100; and a resolution's lookup finds a destination for
\* the tentative square exactly when that square is a key: the player ends
\* off the tentative square if and only if it is one.
BoardTablesSound ==
    /\ [](/\ DOMAIN SNAKES \cup DOMAIN LADDERS \subseteq 2..(TOTAL_SQUARES - 1)
          /\ DOMAIN SNAKES \cap DOMAIN LADDERS = {}
          /\ \A s \in DOMAIN SNAKES : SNAKES[s] < s /\ SNAKES[s] \in 1..TOTAL_SQUARES
          /\ \A s \in DOMAIN LADDERS : LADDERS[s] > s /\ LADDERS[s] \in 1..TOTAL_SQUARES)
    /\ [][(Resolution /\ Head(pending) = Closure
             /\ Active.position + diceValue' <= TOTAL_SQUARES)
            => LET tentative == Active.position + diceValue'
                   final     == players'[currentPlayerIndex + 1].position
               IN  /\ final # tentative
                        <=> tentative \in DOMAIN SNAKES \cup DOMAIN LADDERS
                   /\ final < tentative <=> tentative \in DOMAIN SNAKES
                   /\ final > tentative <=> tentative \in DOMAIN LADDERS]_vars

\* C13 has happened: player 1 rests on 11 after a 4, which only the snake
\* from 49 allows (7 is a ladder foot), in a game not reset since player 2
\* moved.
LookupFoundSnake ==
    /\ lastCall = "movePlayer"
    /\ diceValue = 4
    /\ players[1].position = 11
    /\ players[2].position > 1
    /\ currentPlayerIndex = 1

\* getCoordinates maps the squares one-to-one onto the grid's cells
CoordinatesOntoGrid ==
    /\ {getCoordinates(s) : s \in Squares} = GridCells
    /\ Cardinality(GridCells) = Cardinality(Squares)

\* counted from the bottom, a row with an even index runs left to right and
\* one with an odd index right to left
RowsAlternate ==
    \A s \in Squares :
        LET row == (s - 1) \div GRID_SIZE
        IN  /\ getCoordinates(s).y = (GRID_SIZE - 1) - row
            /\ s % GRID_SIZE # 0 =>
                 getCoordinates(s + 1).x =
                    getCoordinates(s).x + (IF row % 2 = 0 THEN 1 ELSE -1)

\* C14: getCoordinates is a bijection from the squares 1..100 onto the cells
\* of the 10 x 10 grid, even rows (from the bottom) run left to right and
\* odd rows right to left, square 1 is the bottom-left cell and square 100
\* the top-left one; so the tokens of players on different squares are
\* drawn in different cells of the grid.
CoordinatesBijective ==
    /\ CoordinatesOntoGrid
    /\ RowsAlternate
    /\ getCoordinates(1) = Cell(0, 9)
    /\ getCoordinates(TOTAL_SQUARES) = Cell(0, 0)
    /\ \A i \in DOMAIN players : Tokens[i] \in GridCells
    /\ \A i, j \in DOMAIN players :
          players[i].position # players[j].position => Tokens[i] # Tokens[j]

\* C14 has happened: player 1's token is drawn in the top-left cell, on
\* square 100, and player 2's in a right-to-left row.
TokenOnGoal ==
    /\ players[1].position = TOTAL_SQUARES
    /\ Tokens[1] = Cell(0, 0)
    /\ players[2].position = 75
    /\ Tokens[2] = Cell(5, 2)

\* the numbers drawn in the grid's cells are the squares, each once
NumbersArePermutation ==
    /\ {CellNumber(i) : i \in CellIndexes} = Squares
    /\ Cardinality(CellIndexes) = Cardinality(Squares)

\* the number drawn in cell i is the square whose token goes to that cell
NumberingMatchesCoordinates ==
    \A i \in CellIndexes :
        getCoordinates(CellNumber(i)) = Cell(i % 10, i \div 10)

\* C19: for every grid cell i in 0..99 the number drawn in it is the square
\* that getCoordinates places in column i mod 10 of row i div 10, and the
\* numbers drawn are a permutation of 1..100; so every player's token is
\* drawn in the cell that shows the player's square.
NumberingAgreesWithTokens ==
    /\ NumberingMatchesCoordinates
    /\ NumbersArePermutation
    /\ \A p \in DOMAIN players :
          CellNumber(Tokens[p].y * 10 + Tokens[p].x) = players[p].position

\* C19 has happened: player 2 has climbed to 84, in a left-to-right row, and
\* player 1 stands on 38, in a right-to-left row; their tokens are in the
\* cells numbered 84 and 38.
TokensOnNumberedCells ==
    /\ players[1].position = 38
    /\ players[2].position = 84
    /\ Tokens[1] = Cell(2, 6)
    /\ Tokens[2] = Cell(3, 1)
    /\ CellNumber(62) = 38
    /\ CellNumber(13) = 84

\* C15: at most one rollDice call is suspended at any time, and one is
\* suspended exactly while isRolling is set: no second roll is accepted
\* during the delay, whether or not resetGame ran meanwhile.
SingleRollInFlight ==
    /\ Len(pending) <= 1
    /\ isRolling <=> pending # <<>>

\* C15 has happened: resetGame ran during the delay of a roll started away
\* from the start of the game, rollDice was called after it, and the first
\* roll is still the only one suspended.
RollRefusedAfterReset ==
    /\ lastCall = "rollDice"
    /\ isRolling
    /\ Len(pending) = 1
    /\ Head(pending).players[1].position > 1
    /\ \A i \in DOMAIN players : players[i].position = 1
    /\ currentPlayerIndex = 0

\* C16: given that the timer fires, an accepted roll is resolved: isRolling
\* is cleared with the dice value an integer from 1 to 6, by the one
\* resolution of that roll, which leaves no roll suspended.
RollCompletes ==
    /\ isRolling ~> (~isRolling /\ diceValue \in 1..6 /\ lastCall = "movePlayer")
    /\ [][Resolution => Len(pending) = 1 /\ pending' = <<>>]_vars
    /\ [][(~isRolling /\ isRolling') => pending' = <<Closure>>]_vars

\* C16 has happened: a roll accepted on player 2's turn has been resolved
\* with a 4 and the turn is player 1's again.
RollResolved ==
    /\ lastCall = "movePlayer"
    /\ ~isRolling
    /\ pending = <<>>
    /\ diceValue = 4
    /\ currentPlayerIndex = 0
    /\ players[2].position = 5

\* the board has no chain: no snake or ladder ends on a key, and the start
\* square is no key
NoChainedTransitions ==
    LET keys == DOMAIN SNAKES \cup DOMAIN LADDERS
    IN  /\ 1 \notin keys
        /\ \A s \in DOMAIN SNAKES : SNAKES[s] \notin keys
        /\ \A s \in DOMAIN LADDERS : LADDERS[s] \notin keys

\* C17: no player ever rests on a key of SNAKES or of LADDERS (no
\* destination is a key, nor is the start square), so the square a player
\* keeps on an overshoot triggers no snake and no ladder: Transition leaves
\* every player's square where it is.
NoRestOnTransitionSquare ==
    /\ NoChainedTransitions
    /\ \A i \in DOMAIN players :
          /\ players[i].position \notin DOMAIN SNAKES \cup DOMAIN LADDERS
          /\ Transition(players[i].position) = players[i].position

\* C17 has happened: player 1 has kept square 97 on a 5 (92 is a snake
\* head), with player 2 at the top of the ladder from 87.
StayPutNoTransition ==
    /\ lastCall = "movePlayer"
    /\ diceValue = 5
    /\ players[1].position = 97
    /\ players[2].position = 94
    /\ currentPlayerIndex = 1

\* C18: a winner is set exactly when some player is on 100, and then one
\* player alone is on 100 and the winner has that player's id.
WinnerConsistent ==
    LET onGoal == {i \in DOMAIN players : players[i].position = TOTAL_SQUARES}
    IN  /\ winner # <<>> <=> onGoal # {}
        /\ winner # <<>> =>
             /\ Cardinality(onGoal) = 1
             /\ \A i \in onGoal : winner[1].id = players[i].id

\* C18 has happened: player 2 has won from 94 with a 6 while player 1 stands
\* on 97.
WinnerOnGoal ==
    /\ winner # <<>>
    /\ winner[1].id = 2
    /\ winner[1].position = 94
    /\ diceValue = 6
    /\ players[2].position = TOTAL_SQUARES
    /\ players[1].position = 97

====
